---- MODULE Spec2Model ----
(***************************************************************************)
(* Model of whitenoise/middleware.py: the Django middleware wrapper of     *)
(* WhiteNoise (WhiteNoiseMiddleware) and its lazily populated variant      *)
(* (LazyWhiteNoiseMiddleware).                                             *)
(*                                                                         *)
(* Strings (URLs, file names, paths) are sequences of one-character        *)
(* strings, so that startswith, splitext, basename and concatenation are   *)
(* computed as the code computes them.                                     *)
(***************************************************************************)
EXTENDS Integers, Sequences, FiniteSets, TLC

VARIABLES
    lazy,             \* the instance is a LazyWhiteNoiseMiddleware
    autorefresh,      \* self.autorefresh
    use_finders,      \* self.use_finders
    is_manifest,      \* isinstance(staticfiles_storage, ManifestStaticFilesStorage)
    hashed_files,     \* staticfiles_storage.hashed_files, a set of <<key, value>>
    keep_only_hashed, \* settings.WHITENOISE_KEEP_ONLY_HASHED_FILES
    known_cache,      \* the cached_property slot of known_static_urls
    files,            \* self.files, the registry: URL -> static file
    files0,           \* history: the registry as construction left it
    disk,             \* the filesystem: the set of paths that exist
    fs_changes,       \* history: number of filesystem changes so far
    pc,               \* per worker: position inside process_request
    req,              \* per worker: request.path_info
    static_file,      \* per worker: the local static_file
    result,           \* per worker: what process_request returned
    nfind,            \* per worker, history: find_file calls of this request
    cached,           \* per worker, history: the URL was a registry key when the request began
    inserted,         \* per worker, history: this request wrote self.files
    im_url,           \* immutable_file_test: the url argument
    im_answer,        \* what staticfiles_storage.url does for the name it is asked
    im_asked,         \* history: get_static_url was called
    im_result,        \* what immutable_file_test returned
    sv_headers,       \* serve: response.headers, the file handle's header list
    sv_store,         \* serve: the headers of http_response, by lower-cased name
    sv_i,             \* serve: number of headers the loop has applied
    sv_pc,            \* serve: position inside serve
    b_lazy,           \* construction: of a LazyWhiteNoiseMiddleware
    b_autorefresh,    \* construction: self.autorefresh
    b_use_finders,    \* construction: self.use_finders
    b_static_root,    \* construction: the files under self.static_root
    b_root,           \* construction: the files under self.root
    b_finders,        \* construction: what each finder's list(None) yields
    b_fi,             \* add_files_from_finders: the finder being enumerated
    b_ei,             \* add_files_from_finders: entries of it already taken
    b_ffiles,         \* add_files_from_finders: the local dict files
    b_stat_cache,     \* add_files_from_finders: the keys of stat_cache
    b_stat_calls,     \* history: number of os.stat calls
    b_files,          \* construction: self.files
    b_pc,             \* construction: position inside __init__
    k_is_manifest,    \* known_static_urls: the storage is a ManifestStaticFilesStorage
    k_hashed_files,   \* known_static_urls: staticfiles_storage.hashed_files
    k_keep_only,      \* known_static_urls: settings.WHITENOISE_KEEP_ONLY_HASHED_FILES
    k_cache,          \* known_static_urls: the slot of the instance's __dict__
    k_pc,             \* per worker: position inside the attribute access
    k_local,          \* per worker: the value its call of the function computed
    k_seen,           \* per worker: the value its last access returned
    k_reads,          \* history: number of times the manifest was read
    k_changes,        \* history: number of manifest changes so far
    k_first           \* history: the first value stored in the slot

\* the state of the request path (process_request)
routerVars == <<lazy, autorefresh, use_finders, is_manifest, hashed_files,
                keep_only_hashed, known_cache, files, files0, disk, fs_changes,
                pc, req, static_file, result, nfind, cached, inserted>>

\* the state of one immutability test
immVars == <<im_url, im_answer, im_asked, im_result>>

\* the state of one call of serve
serveVars == <<sv_headers, sv_store, sv_i, sv_pc>>

\* the state of one construction (__init__)
buildVars == <<b_lazy, b_autorefresh, b_use_finders, b_static_root, b_root,
               b_finders, b_fi, b_ei, b_ffiles, b_stat_cache, b_stat_calls,
               b_files, b_pc>>

\* the state of the accesses to known_static_urls
knownVars == <<k_is_manifest, k_hashed_files, k_keep_only, k_cache, k_pc,
               k_local, k_seen, k_reads, k_changes, k_first>>

vars == <<routerVars, immVars, serveVars, buildVars, knownVars>>

-----------------------------------------------------------------------------
(* Bounds of the model *)

\* number of concurrent workers sharing the middleware instance
NWorkers == 2

\* number of filesystem changes the environment may make during a run
MaxFsChanges == 1

Workers == 1..NWorkers

-----------------------------------------------------------------------------
(* Strings *)

\* str.startswith
StartsWith(s, p) ==
    /\ Len(p) <= Len(s)
    /\ SubSeq(s, 1, Len(p)) = p

\* self.static_prefix after ensure_leading_trailing_slash
static_prefix == <<"/", "s", "/">>

\* the names the storage knows: an unhashed name and its hashed counterpart
NameA == <<"a">>
NameH == <<"a", ".", "h">>

\* request.path_info values: two URLs under the prefix, one outside it
RequestPaths == {static_prefix \o NameA, static_prefix \o NameH, <<"/", "x">>}

-----------------------------------------------------------------------------
(* Static files and the filesystem *)

\* "no static file": Python's None in a static_file position
NoFile == [path |-> <<>>]

\* the file a finder (django.contrib.staticfiles.finders.find) locates for a name
FinderPath(name) == <<"F", "/">> \o name

\* the file the directories of the base class (static root, root) hold for a URL
RootPath(url) == <<"R">> \o url

AllPaths ==
    {RootPath(u) : u \in RequestPaths}
        \cup {FinderPath(SubSeq(u, Len(static_prefix) + 1, Len(u))) :
                 u \in {v \in RequestPaths : StartsWith(v, static_prefix)}}

\* finders.find(name): the path, or nothing
FindersFind(d, name) ==
    IF FinderPath(name) \in d THEN <<FinderPath(name)>> ELSE <<>>

\* WhiteNoise.candidate_paths_for_url of the base class: one candidate per directory
BaseCandidatePaths(url) == <<RootPath(url)>>

\* candidate_paths_for_url: the finder's path first, then the base class's
candidate_paths_for_url(finders_on, d, url) ==
    (IF finders_on /\ StartsWith(url, static_prefix)
        THEN FindersFind(d, SubSeq(url, Len(static_prefix) + 1, Len(url)))
        ELSE <<>>)
    \o BaseCandidatePaths(url)

\* WhiteNoise.find_file of the base class: the first candidate that exists
find_file(finders_on, d, url) ==
    LET c == SelectSeq(candidate_paths_for_url(finders_on, d, url),
                       LAMBDA p : p \in d)
    IN IF c = <<>> THEN NoFile ELSE [path |-> Head(c)]

-----------------------------------------------------------------------------
(* The registry self.files *)

\* self.files.get(url)
RegistryGet(f, url) == IF url \in DOMAIN f THEN f[url] ELSE NoFile

\* mutation of RegistryPut: the insertion of line 87 is lost
RegistryPutDropped(f, url, sf) == f

\* self.files[url] = static_file
RegistryPut(f, url, sf) ==
    [u \in DOMAIN f \cup {url} |-> IF u = url THEN sf ELSE f[u]]

-----------------------------------------------------------------------------
(* The knowledge set and the gate *)

Unset == [tag |-> "unset", urls |-> {}]

\* mutation of known_static_urls: the unhashed names are always included
KnownStaticUrlsUnhashedAlways(manifest, hf, keep_only) ==
    IF manifest
        THEN [tag |-> "set",
              urls |-> {static_prefix \o e[2] : e \in hf}
                       \cup {static_prefix \o e[1] : e \in hf}]
        ELSE [tag |-> "none", urls |-> {}]

\* LazyWhiteNoiseMiddleware.known_static_urls: None without a manifest
known_static_urls(manifest, hf, keep_only) ==
    IF manifest
        THEN LET serve_unhashed == ~keep_only
             IN [tag |-> "set",
                 urls |-> {static_prefix \o e[2] : e \in hf}
                          \cup (IF serve_unhashed
                                   THEN {static_prefix \o e[1] : e \in hf}
                                   ELSE {})]
        ELSE [tag |-> "none", urls |-> {}]

\* cached_property: compute on first access, then the stored value
KnownAccess(cache, manifest, hf, keep_only) ==
    IF cache.tag = "unset" THEN known_static_urls(manifest, hf, keep_only)
    ELSE cache

\* mutation of BaseCanLazyLoadUrl: the base class lets every URL through
BaseCanLazyLoadUrlOpen(url) == "True"

\* WhiteNoiseMiddleware.can_lazy_load_url
BaseCanLazyLoadUrl(url) == "False"

\* mutation of LazyCanLazyLoadUrl: the gate lets every URL through
LazyCanLazyLoadUrlOpen(url, known) == "True"

\* mutation of LazyCanLazyLoadUrl: the gate tests the prefix only
LazyCanLazyLoadUrlPrefixOnly(url, known) ==
    IF StartsWith(url, static_prefix) THEN "True" ELSE "False"

\* LazyWhiteNoiseMiddleware.can_lazy_load_url:
\*   url.startswith(p) and known is None or url in known
\* parsed as (url.startswith(p) and known is None) or (url in known);
\* `url in None` raises TypeError
LazyCanLazyLoadUrl(url, known) ==
    IF StartsWith(url, static_prefix) /\ known.tag = "none" THEN "True"
    ELSE IF known.tag = "none" THEN "TypeError"
    ELSE IF url \in known.urls THEN "True" ELSE "False"

-----------------------------------------------------------------------------
(* process_request, one step per access to shared state; lines 88-89 (the     *)
(* return of self.serve(static_file, request), or of None) read only the    *)
(* request's own static_file and are part of the step that ends the request *)

\* mutation of FirstStep: autorefresh is ignored, the registry is consulted
FirstStepRegistry(ar) == "lookup"

\* line 79: the branch on self.autorefresh
FirstStep(ar) == IF ar THEN "find_autorefresh" ELSE "lookup"

\* a worker receives a request
StartRequest(w, u) ==
    /\ pc[w] \in {"idle", "done", "raised"}
    /\ req' = [req EXCEPT ![w] = u]
    /\ static_file' = [static_file EXCEPT ![w] = NoFile]
    /\ result' = [result EXCEPT ![w] = NoFile]
    /\ nfind' = [nfind EXCEPT ![w] = 0]
    /\ cached' = [cached EXCEPT ![w] = (u \in DOMAIN files)]
    /\ inserted' = [inserted EXCEPT ![w] = FALSE]
    /\ pc' = [pc EXCEPT ![w] = FirstStep(autorefresh)]
    /\ UNCHANGED <<knownVars, immVars, serveVars, buildVars, lazy, autorefresh, use_finders, is_manifest, hashed_files,
                   keep_only_hashed, known_cache, files, files0, disk, fs_changes>>

\* line 80: static_file = self.find_file(request.path_info)
FindAutorefresh(w) ==
    /\ pc[w] = "find_autorefresh"
    /\ LET sf == find_file(use_finders, disk, req[w])
       IN /\ static_file' = [static_file EXCEPT ![w] = sf]
          /\ result' = [result EXCEPT ![w] = sf]
    /\ nfind' = [nfind EXCEPT ![w] = @ + 1]
    /\ pc' = [pc EXCEPT ![w] = "done"]
    /\ UNCHANGED <<knownVars, immVars, serveVars, buildVars, lazy, autorefresh, use_finders, is_manifest, hashed_files,
                   keep_only_hashed, known_cache, files, files0, disk, fs_changes,
                   req, cached, inserted>>

\* line 82: static_file = self.files.get(request.path_info)
Lookup(w) ==
    /\ pc[w] = "lookup"
    /\ LET sf == RegistryGet(files, req[w])
       IN /\ static_file' = [static_file EXCEPT ![w] = sf]
          /\ result' = [result EXCEPT ![w] = sf]
          /\ pc' = [pc EXCEPT ![w] = IF sf = NoFile THEN "gate" ELSE "done"]
    /\ UNCHANGED <<knownVars, immVars, serveVars, buildVars, lazy, autorefresh, use_finders, is_manifest, hashed_files,
                   keep_only_hashed, known_cache, files, files0, disk, fs_changes,
                   req, nfind, cached, inserted>>

\* line 83: self.can_lazy_load_url(request.path_info)
Gate(w) ==
    /\ pc[w] = "gate"
    /\ LET known == KnownAccess(known_cache, is_manifest, hashed_files,
                                keep_only_hashed)
           ok == IF lazy THEN LazyCanLazyLoadUrl(req[w], known)
                 ELSE BaseCanLazyLoadUrl(req[w])
       IN /\ known_cache' = IF lazy THEN known ELSE known_cache
          /\ pc' = [pc EXCEPT ![w] =
                       CASE ok = "True" -> "find_lazy"
                         [] ok = "False" -> "done"
                         [] OTHER -> "raised"]
    /\ UNCHANGED <<knownVars, immVars, serveVars, buildVars, lazy, autorefresh, use_finders, is_manifest, hashed_files,
                   keep_only_hashed, files, files0, disk, fs_changes,
                   req, static_file, result, nfind, cached, inserted>>

\* mutation of AfterFind: the result of discovery is never registered
AfterFindNever(sf) == "done"

\* mutation of AfterFind: the result of discovery is registered even when None
AfterFindAlways(sf) == "insert"

\* line 85: if static_file is not None
AfterFind(sf) == IF sf # NoFile THEN "insert" ELSE "done"

\* lines 84-85: static_file = self.find_file(request.path_info)
FindLazy(w) ==
    /\ pc[w] = "find_lazy"
    /\ LET sf == find_file(use_finders, disk, req[w])
       IN /\ static_file' = [static_file EXCEPT ![w] = sf]
          /\ pc' = [pc EXCEPT ![w] = AfterFind(sf)]
    /\ nfind' = [nfind EXCEPT ![w] = @ + 1]
    /\ UNCHANGED <<knownVars, immVars, serveVars, buildVars, lazy, autorefresh, use_finders, is_manifest, hashed_files,
                   keep_only_hashed, known_cache, files, files0, disk, fs_changes,
                   req, result, cached, inserted>>

\* line 87: self.files[request.path_info] = static_file
Insert(w) ==
    /\ pc[w] = "insert"
    /\ files' = RegistryPut(files, req[w], static_file[w])
    /\ inserted' = [inserted EXCEPT ![w] = TRUE]
    /\ result' = [result EXCEPT ![w] = static_file[w]]
    /\ pc' = [pc EXCEPT ![w] = "done"]
    /\ UNCHANGED <<knownVars, immVars, serveVars, buildVars, lazy, autorefresh, use_finders, is_manifest, hashed_files,
                   keep_only_hashed, known_cache, files0, disk, fs_changes,
                   req, static_file, nfind, cached>>

\* the files the environment adds or removes while requests are served
VolatilePaths == {FinderPath(NameA)}

\* the environment adds or removes a file
FsChange(p) ==
    /\ fs_changes < MaxFsChanges
    /\ disk' = IF p \in disk THEN disk \ {p} ELSE disk \cup {p}
    /\ fs_changes' = fs_changes + 1
    /\ UNCHANGED <<knownVars, immVars, serveVars, buildVars, lazy, autorefresh, use_finders, is_manifest, hashed_files,
                   keep_only_hashed, known_cache, files, files0,
                   pc, req, static_file, result, nfind, cached, inserted>>

-----------------------------------------------------------------------------
(* Initial states: a constructed middleware, all workers idle *)

\* the manifests the storage may hold
Manifests == {{}, {<<NameA, NameH>>}}

\* the filesystems a run may start from
Disks == {{}, {RootPath(u) : u \in RequestPaths}, AllPaths}

\* the registries construction may leave: empty, or the files of the root
\* (with autorefresh on, construction scans nothing and the registry is empty)
Registries(d) ==
    {<<>>} \cup
    {[u \in S |-> [path |-> RootPath(u)]] :
        S \in {T \in {{static_prefix \o NameH}} : \A u \in T : RootPath(u) \in d}}

\* no immutability test is under way
ImmIdle ==
    /\ im_url = <<>>
    /\ im_answer = [raises |-> TRUE, url |-> <<>>]
    /\ im_asked = FALSE
    /\ im_result = "idle"

\* no response is being built
ServeIdle ==
    /\ sv_headers = <<>>
    /\ sv_store = <<>>
    /\ sv_i = 0
    /\ sv_pc = "idle"

\* no construction is under way
BuildIdle ==
    /\ b_lazy = FALSE
    /\ b_autorefresh = FALSE
    /\ b_use_finders = FALSE
    /\ b_static_root = <<>>
    /\ b_root = <<>>
    /\ b_finders = <<>>
    /\ b_fi = 0
    /\ b_ei = 0
    /\ b_ffiles = <<>>
    /\ b_stat_cache = {}
    /\ b_stat_calls = 0
    /\ b_files = <<>>
    /\ b_pc = "idle"

\* known_static_urls is not being accessed
KnownIdle ==
    /\ k_is_manifest = FALSE
    /\ k_hashed_files = {}
    /\ k_keep_only = FALSE
    /\ k_cache = Unset
    /\ k_pc = [w \in Workers |-> "idle"]
    /\ k_local = [w \in Workers |-> Unset]
    /\ k_seen = [w \in Workers |-> Unset]
    /\ k_reads = 0
    /\ k_changes = 0
    /\ k_first = Unset

Init ==
    /\ KnownIdle
    /\ ImmIdle
    /\ ServeIdle
    /\ BuildIdle
    /\ lazy \in BOOLEAN
    /\ autorefresh \in BOOLEAN
    /\ use_finders \in BOOLEAN
    /\ is_manifest \in BOOLEAN
    /\ hashed_files \in (IF is_manifest THEN Manifests ELSE {{}})
    /\ keep_only_hashed \in (IF hashed_files # {} THEN BOOLEAN ELSE {FALSE})
    /\ known_cache = Unset
    /\ disk \in Disks
    /\ files \in (IF autorefresh THEN {<<>>} ELSE Registries(disk))
    /\ files0 = files
    /\ fs_changes = 0
    /\ pc = [w \in Workers |-> "idle"]
    /\ req = [w \in Workers |-> <<"/", "x">>]
    /\ static_file = [w \in Workers |-> NoFile]
    /\ result = [w \in Workers |-> NoFile]
    /\ nfind = [w \in Workers |-> 0]
    /\ cached = [w \in Workers |-> FALSE]
    /\ inserted = [w \in Workers |-> FALSE]

\* no middleware is serving requests
RouterIdle ==
    /\ lazy = FALSE
    /\ autorefresh = FALSE
    /\ use_finders = FALSE
    /\ is_manifest = FALSE
    /\ hashed_files = {}
    /\ keep_only_hashed = FALSE
    /\ known_cache = Unset
    /\ disk = {}
    /\ files = <<>>
    /\ files0 = <<>>
    /\ fs_changes = 0
    /\ pc = [w \in Workers |-> "idle"]
    /\ req = [w \in Workers |-> <<"/", "x">>]
    /\ static_file = [w \in Workers |-> NoFile]
    /\ result = [w \in Workers |-> NoFile]
    /\ nfind = [w \in Workers |-> 0]
    /\ cached = [w \in Workers |-> FALSE]
    /\ inserted = [w \in Workers |-> FALSE]

Next ==
    \/ \E w \in Workers, u \in RequestPaths : StartRequest(w, u)
    \/ \E w \in Workers : FindAutorefresh(w)
    \/ \E w \in Workers : Lookup(w)
    \/ \E w \in Workers : Gate(w)
    \/ \E w \in Workers : FindLazy(w)
    \/ \E w \in Workers : Insert(w)
    \/ \E p \in VolatilePaths : FsChange(p)

Spec == Init /\ [][Next]_vars

-----------------------------------------------------------------------------
(* Properties of process_request *)

\* the middleware serves from the registry only (EAGER)
EagerMode == ~lazy /\ ~autorefresh

\* the middleware populates the registry on demand (LAZY)
LazyMode == lazy /\ ~autorefresh

\* the knowledge set the manifest gives
KnownUrls == known_static_urls(is_manifest, hashed_files, keep_only_hashed).urls

\* worker w is past the registry lookup of its request
PastLookup(w) == pc[w] \in {"gate", "find_lazy", "insert", "done", "raised"}

\* C1. Gate enforcement: in LAZY mode with a manifest, a request for a URL
\* that is neither in the knowledge set nor in the registry never reaches
\* discovery (find_file) or the insertion, and returns nothing.
C1_GateEnforcement ==
    \A w \in Workers :
        (LazyMode /\ is_manifest /\ PastLookup(w) /\ ~cached[w]
                  /\ req[w] \notin KnownUrls)
            => /\ pc[w] \in {"gate", "done"}
               /\ nfind[w] = 0
               /\ ~inserted[w]
               /\ result[w] = NoFile
               /\ req[w] \notin DOMAIN files

\* C1 witness: such a request has returned, although the file is on disk.
C1_Witness ==
    \E w \in Workers :
        /\ LazyMode /\ is_manifest /\ hashed_files # {}
        /\ pc[w] = "done" /\ ~cached[w]
        /\ req[w] \notin KnownUrls
        /\ StartsWith(req[w], static_prefix)
        /\ RootPath(req[w]) \in disk
        /\ result[w] = NoFile

\* C2. LAZY convergence: a request whose discovery succeeded has its URL in
\* the registry when it returns, and a request that begins once the URL is a
\* registry key returns a descriptor without any discovery.
C2_LazyConvergence ==
    LazyMode =>
        \A w \in Workers :
            /\ (pc[w] = "done" /\ nfind[w] > 0 /\ result[w] # NoFile)
                   => (inserted[w] /\ req[w] \in DOMAIN files)
            /\ cached[w] /\ pc[w] # "lookup"
                   => (pc[w] = "done" /\ nfind[w] = 0 /\ result[w] # NoFile)

\* C2 witness: one worker has discovered and inserted a URL, and another
\* request for it, begun afterwards, was answered from the registry.
C2_Witness ==
    \E w, v \in Workers :
        /\ LazyMode
        /\ pc[w] = "done" /\ inserted[w]
        /\ pc[v] = "done" /\ cached[v] /\ req[v] = req[w]
        /\ req[v] \notin DOMAIN files0
        /\ nfind[v] = 0 /\ result[v] # NoFile

\* C3. An unresolvable path is never an error: process_request raises no
\* exception, in any mode and for any path.
C3_NeverRaises == \A w \in Workers : pc[w] # "raised"

\* C6. Registry first-write-wins: no key is removed and the static file
\* bound to a key is never replaced.
C6_FirstWriteWins ==
    [][\A u \in DOMAIN files : u \in DOMAIN files' /\ files'[u] = files[u]]_vars

\* C9. EAGER mode is a pure lookup: no discovery, no registry change, and a
\* path that is no registry key returns nothing.
C9_EagerPureLookup ==
    EagerMode =>
        /\ files = files0
        /\ \A w \in Workers :
            /\ pc[w] \in {"idle", "lookup", "gate", "done"}
            /\ nfind[w] = 0
            /\ ~inserted[w]
            /\ pc[w] = "done" =>
                   result[w] = RegistryGet(files, req[w])

\* C9 witness: an EAGER request for a file that is on disk but is no registry
\* key has returned nothing.
C9_Witness ==
    \E w \in Workers :
        /\ EagerMode
        /\ pc[w] = "done"
        /\ req[w] \notin DOMAIN files
        /\ RootPath(req[w]) \in disk
        /\ result[w] = NoFile

\* C10. AUTOREFRESH bypasses the registry: each request performs exactly one
\* discovery, and never reads the registry, asks the gate or inserts.
C10_AutorefreshBypass ==
    autorefresh =>
        /\ files = files0
        /\ known_cache = Unset
        /\ \A w \in Workers :
            /\ pc[w] \in {"idle", "find_autorefresh", "done"}
            /\ ~inserted[w]
            /\ pc[w] = "find_autorefresh" => nfind[w] = 0
            /\ pc[w] = "done" => nfind[w] = 1

\* C10 witness: two requests for the same path have each performed their own
\* discovery, with LazyWhiteNoiseMiddleware as with WhiteNoiseMiddleware.
C10_Witness ==
    /\ autorefresh
    /\ \A w \in Workers :
        /\ pc[w] = "done" /\ req[w] = req[1]
        /\ nfind[w] = 1
        /\ result[w] # NoFile

\* the gate of LazyWhiteNoiseMiddleware lets URL u through
Eligible(u) ==
    LazyCanLazyLoadUrl(u, known_static_urls(is_manifest, hashed_files,
                                            keep_only_hashed)) = "True"

\* what discovery finds for URL u on the present filesystem
Discovered(u) == find_file(use_finders, disk, u)

\* C15. Lock-free lazy population tolerates duplicate work: with a stable
\* filesystem, a request for an unseen, gate-eligible and discoverable URL
\* never raises and returns, after at most one discovery of its own, the
\* discovery result, to which the registry then binds the URL; and when all
\* workers have so returned for the same URL, at least one of them made the
\* discovery and inserted it.
C15_DuplicateWorkTolerant ==
    (LazyMode /\ fs_changes = 0) =>
        /\ \A w \in Workers :
               (PastLookup(w) /\ Eligible(req[w])) => pc[w] # "raised"
        /\ \A w \in Workers :
               (/\ pc[w] = "done" /\ ~cached[w]
                /\ Eligible(req[w])
                /\ Discovered(req[w]) # NoFile)
                   => /\ req[w] \in DOMAIN files
                      /\ files[req[w]] = Discovered(req[w])
                      /\ result[w] = Discovered(req[w])
                      /\ nfind[w] <= 1
        /\ (/\ \A w \in Workers :
                   pc[w] = "done" /\ ~cached[w] /\ req[w] = req[1]
            /\ Eligible(req[1])
            /\ Discovered(req[1]) # NoFile)
               => \E w \in Workers : nfind[w] = 1 /\ inserted[w]

\* C15 witness: two workers each discovered the same unseen URL on their own,
\* and both returned the file the registry now holds.
C15_Witness ==
    /\ LazyMode /\ fs_changes = 0
    /\ \A w \in Workers :
        /\ pc[w] = "done" /\ req[w] = req[1] /\ ~cached[w]
        /\ nfind[w] = 1 /\ inserted[w]
        /\ req[w] \in DOMAIN files
        /\ result[w] = files[req[w]]

\* C18. Bounded cache growth: in LAZY mode with a manifest, the registry keys
\* are keys left by construction or members of the knowledge set, and a
\* request for a path outside the knowledge set never reaches discovery or
\* the insertion.
C18_BoundedGrowth ==
    (LazyMode /\ is_manifest) =>
        /\ DOMAIN files \subseteq (DOMAIN files0 \cup KnownUrls)
        /\ \A w \in Workers :
               req[w] \notin KnownUrls
                   => (~inserted[w] /\ pc[w] \notin {"find_lazy", "insert"})

\* C18 witness: the registry has grown by a known URL, and a request for an
\* existing file under the prefix but outside the knowledge set has returned
\* without adding an entry.
C18_Witness ==
    \E w \in Workers :
        /\ LazyMode /\ is_manifest
        /\ files # files0
        /\ pc[w] = "done"
        /\ StartsWith(req[w], static_prefix)
        /\ req[w] \notin KnownUrls
        /\ Discovered(req[w]) # NoFile
        /\ req[w] \notin DOMAIN files

\* C19. No negative caching: in LAZY mode None is never a registry value; a
\* request whose discovery found nothing returns nothing and has not
\* inserted; and every request that passes the gate and returns while its
\* URL is no registry key has invoked discovery.
C19_NoNegativeCaching ==
    LazyMode =>
        /\ \A u \in DOMAIN files : files[u] # NoFile
        /\ \A w \in Workers :
            /\ (pc[w] = "done" /\ nfind[w] = 1 /\ static_file[w] = NoFile)
                   => (~inserted[w] /\ result[w] = NoFile)
            /\ (pc[w] = "done" /\ Eligible(req[w])
                              /\ req[w] \notin DOMAIN files)
                   => (nfind[w] = 1 /\ result[w] = NoFile)

\* C19 witness: a request found no file and returned nothing; after the file
\* appeared, another request for the same URL discovered and registered it.
C19_Witness ==
    \E w, v \in Workers :
        /\ LazyMode
        /\ pc[w] = "done" /\ nfind[w] = 1 /\ result[w] = NoFile
        /\ ~inserted[w]
        /\ pc[v] = "done" /\ req[v] = req[w]
        /\ nfind[v] = 1 /\ inserted[v] /\ result[v] # NoFile

-----------------------------------------------------------------------------
(* immutable_file_test and its helpers *)

\* number of dot-separated segments of the file names tested
MaxSegments == 3

\* str.rfind, 1-based: the last position of character c in s, 0 if none
RFind(s, c) ==
    LET at == {i \in 1..Len(s) : s[i] = c}
    IN IF at = {} THEN 0 ELSE CHOOSE i \in at : \A j \in at : j <= i

\* os.path.splitext (genericpath._splitext with sep "/" and extsep "."):
\* the extension starts at the last dot of the last path component, unless
\* only dots precede it there
Splitext(p) ==
    LET sepIndex == RFind(p, "/")
        dotIndex == RFind(p, ".")
    IN IF /\ dotIndex > sepIndex
          /\ \E i \in (sepIndex + 1)..(dotIndex - 1) : p[i] # "."
         THEN <<SubSeq(p, 1, dotIndex - 1), SubSeq(p, dotIndex, Len(p))>>
         ELSE <<p, <<>>>>

\* posixpath.basename
Basename(p) == SubSeq(p, RFind(p, "/") + 1, Len(p))

\* mutation of get_name_without_hash: only the extension is split off once,
\* and the hash segment stays in the name
GetNameWithoutHashOnce(filename) ==
    LET name_with_hash == Splitext(filename)[1]
        ext == Splitext(filename)[2]
    IN name_with_hash \o ext

\* get_name_without_hash
get_name_without_hash(filename) ==
    LET name_with_hash == Splitext(filename)[1]
        ext == Splitext(filename)[2]
        name == Splitext(name_with_hash)[1]
    IN name \o ext

\* Python's None in a URL position
NoUrl == [none |-> TRUE, url |-> <<>>, raised |-> FALSE]

\* mutation of get_static_url: the storage's ValueError is not caught
GetStaticUrlUncaught(answer) ==
    IF answer.raises THEN [none |-> TRUE, url |-> <<>>, raised |-> TRUE]
    ELSE [none |-> FALSE, url |-> answer.url, raised |-> FALSE]

\* get_static_url: the storage's URL, or None when the storage raises ValueError
get_static_url(answer) ==
    IF answer.raises THEN NoUrl
    ELSE [none |-> FALSE, url |-> answer.url, raised |-> FALSE]

\* lines 162-172 of immutable_file_test, after the test of the prefix:
\* <<returned value, get_static_url was called, an exception left the test>>
ImmutableAfterPrefix(url, answer) ==
    LET name == SubSeq(url, Len(static_prefix) + 1, Len(url))
        name_without_hash == get_name_without_hash(name)
    IN IF name = name_without_hash THEN <<FALSE, FALSE, FALSE>>
       ELSE LET static_url == get_static_url(answer)
            IN IF static_url.raised THEN <<FALSE, TRUE, TRUE>>
               ELSE IF /\ ~static_url.none
                       /\ static_url.url # <<>>
                       /\ Basename(static_url.url) = Basename(url)
                      THEN <<TRUE, TRUE, FALSE>>
                      ELSE <<FALSE, TRUE, FALSE>>

\* mutation of immutable_file_test: the prefix is not tested
ImmutableFileTestAnyPrefix(url, answer) == ImmutableAfterPrefix(url, answer)

\* immutable_file_test
immutable_file_test(url, answer) ==
    IF ~StartsWith(url, static_prefix) THEN <<FALSE, FALSE, FALSE>>
    ELSE ImmutableAfterPrefix(url, answer)

\* the test is run on the chosen url
ImmutableFileTest ==
    /\ im_result = "idle"
    /\ LET r == immutable_file_test(im_url, im_answer)
       IN /\ im_result' = (IF r[3] THEN "ValueError"
                           ELSE IF r[1] THEN "True" ELSE "False")
          /\ im_asked' = r[2]
    /\ UNCHANGED <<knownVars, routerVars, serveVars, buildVars, im_url, im_answer>>

\* the segments file names are made of: empty, a stem, a hash
Segments == {<<>>, <<"a">>, <<"h">>}

RECURSIVE JoinDots(_)
\* ".".join(segs)
JoinDots(segs) ==
    IF Len(segs) = 0 THEN <<>>
    ELSE IF Len(segs) = 1 THEN segs[1]
    ELSE segs[1] \o <<".">> \o JoinDots(Tail(segs))

\* the segment lists of the file names tested
SegmentLists == UNION {[1..n -> Segments] : n \in 1..MaxSegments}

\* directories a name may lie in
Directories == {<<>>, <<"d", "/">>}

\* asset names: a directory and dot-separated segments
AssetNames == {d \o JoinDots(l) : d \in Directories, l \in SegmentLists}

\* the URL roots: the static prefix, and a root outside it
UrlRoots == {static_prefix, <<"/", "c", "/">>}

\* the root of the URLs the storage returns (STATIC_URL may name another host)
StorageRoot == <<"/", "c", "/">>

\* what the storage may do for a name: raise ValueError, or return a URL
StorageAnswers ==
    {[raises |-> TRUE, url |-> <<>>], [raises |-> FALSE, url |-> <<>>]}
        \cup {[raises |-> FALSE, url |-> StorageRoot \o n] : n \in AssetNames}

ImmInit ==
    /\ RouterIdle
    /\ KnownIdle
    /\ ServeIdle
    /\ BuildIdle
    /\ im_url \in {b \o n : b \in UrlRoots, n \in AssetNames}
    /\ im_answer \in StorageAnswers
    /\ im_asked = FALSE
    /\ im_result = "idle"

ImmNext == ImmutableFileTest

SpecImm == ImmInit /\ [][ImmNext]_vars

\* the part of the tested URL after the static prefix
ImName == SubSeq(im_url, Len(static_prefix) + 1, Len(im_url))

\* C7. Immutability round-trip: (a) for a URL static_prefix + name.HASH.ext
\* (name with a character other than "." in its last component, HASH and ext
\* non-empty and free of "." and "/") the name asked of the storage is
\* name.ext, and if the storage's URL for it ends in the component
\* name.HASH.ext the test returns true; (b) a URL whose file name
\* get_name_without_hash leaves unchanged tests false; (c) the test returns
\* true exactly when the URL is under the prefix, stripping changes the name,
\* the storage returns a URL and its last component is the URL's.
C7_ImmutableRoundTrip ==
    im_result # "idle" =>
        /\ \A d \in Directories, l \in SegmentLists :
               LET n == Len(l)
                   front == SubSeq(l, 1, n - 2)
                   hashed == d \o JoinDots(l)
                   unhashed == d \o JoinDots(front \o <<l[n]>>)
               IN (/\ n >= 3
                   /\ l[n] # <<>> /\ l[n - 1] # <<>>
                   /\ \E i \in 1..(n - 2) : l[i] # <<>>
                   /\ im_url = static_prefix \o hashed)
                  => /\ get_name_without_hash(hashed) = unhashed
                     /\ (/\ ~im_answer.raises
                         /\ Basename(im_answer.url) = Basename(hashed))
                            => im_result = "True"
        /\ (/\ StartsWith(im_url, static_prefix)
            /\ get_name_without_hash(ImName) = ImName)
               => im_result = "False"
        /\ im_result = "True" <=>
               /\ StartsWith(im_url, static_prefix)
               /\ get_name_without_hash(ImName) # ImName
               /\ ~im_answer.raises
               /\ im_answer.url # <<>>
               /\ Basename(im_answer.url) = Basename(im_url)

\* C7 witness: the URL /s/d/a.h.a, whose unhashed name d/a.a the storage
\* maps to a URL under another root ending in a.h.a, has tested true.
C7_Witness ==
    /\ im_url = static_prefix \o <<"d", "/", "a", ".", "h", ".", "a">>
    /\ im_answer = [raises |-> FALSE,
                    url |-> <<"/", "c", "/", "a", ".", "h", ".", "a">>]
    /\ im_result = "True"

------------------------------------------------------------------------\* C13. A URL that does not start with the static prefix tests false, and
\* the storage is not asked (get_static_url is not called).
C13_OutsidePrefixFalse ==
    (im_result # "idle" /\ ~StartsWith(im_url, static_prefix))
        => (im_result = "False" /\ ~im_asked)

\* C13 witness: a URL outside the prefix whose file name has a hash segment,
\* and to which the storage's URL would have round-tripped, has tested false.
C13_Witness ==
    /\ im_url = <<"/", "c", "/", "a", ".", "h", ".", "a">>
    /\ im_answer = [raises |-> FALSE,
                    url |-> <<"/", "c", "/", "a", ".", "h", ".", "a">>]
    /\ im_result = "False"
    /\ ~im_asked

\* C14. The classifier is fail-safe: no exception leaves the test, and it
\* returns false whenever the storage raises for the name it is asked, or
\* the file name has no extension, or has no hash segment before it.
C14_FailSafe ==
    im_result # "idle" =>
        /\ im_result \in {"True", "False"}
        /\ im_answer.raises => im_result = "False"
        /\ (StartsWith(im_url, static_prefix) /\ Splitext(ImName)[2] = <<>>)
               => im_result = "False"
        /\ (/\ StartsWith(im_url, static_prefix)
            /\ Splitext(Splitext(ImName)[1])[2] = <<>>)
               => im_result = "False"

\* C14 witness: the storage was asked for the unhashed name of a hashed URL,
\* raised ValueError, and the test returned false.
C14_Witness ==
    /\ im_url = static_prefix \o <<"a", ".", "h", ".", "a">>
    /\ im_answer.raises
    /\ im_asked
    /\ im_result = "False"

-----
(* serve: the file handle's response as a Django response *)

\* number of headers in the file handle's header list
MaxHeaders == 2

\* header names as the file handle may spell them
HeaderNames == {"Content-Type", "content-type", "ETag", "Content-Length"}

HeaderValues == {"v1", "v2"}

\* str.lower on header names: Django keys a response's headers by it
Lower(n) ==
    CASE n = "Content-Type" -> "content-type"
      [] n = "ETag" -> "etag"
      [] n = "Content-Length" -> "content-length"
      [] n = "Content-Disposition" -> "content-disposition"
      [] OTHER -> n

\* http_response[key] = value
SetHeader(store, key, value) ==
    [k \in DOMAIN store \cup {Lower(key)} |->
        IF k = Lower(key) THEN <<key, value>> ELSE store[k]]

\* del http_response[key]
DelHeader(store, key) ==
    [k \in DOMAIN store \ {Lower(key)} |-> store[k]]

\* the headers Django's HttpResponseBase.__init__ sets: a default Content-Type
DefaultHeaders ==
    SetHeader(<<>>, "Content-Type", "text/html; charset=utf-8")

\* mutation of set_headers: FileResponse.set_headers of Django, which the
\* subclass overrides, sets its default headers
DjangoSetHeaders(store) ==
    SetHeader(SetHeader(store, "Content-Length", "0"),
              "Content-Disposition", "inline")

\* WhiteNoiseFileResponse.set_headers: pass
set_headers(store) == store

\* line 93: static_file.get_response gives the header list
SvGetResponse(h) ==
    /\ sv_pc = "idle"
    /\ sv_headers' = h
    /\ sv_pc' = "construct"
    /\ UNCHANGED <<knownVars, routerVars, immVars, buildVars, sv_store, sv_i>>

\* line 95: http_response = WhiteNoiseFileResponse(...)
SvConstruct ==
    /\ sv_pc = "construct"
    /\ sv_store' = set_headers(DefaultHeaders)
    /\ sv_pc' = "delete"
    /\ UNCHANGED <<knownVars, routerVars, immVars, buildVars, sv_headers, sv_i>>

\* line 97: del http_response["content-type"]
SvDelete ==
    /\ sv_pc = "delete"
    /\ sv_store' = DelHeader(sv_store, "content-type")
    /\ sv_i' = 0
    /\ sv_pc' = "loop"
    /\ UNCHANGED <<knownVars, routerVars, immVars, buildVars, sv_headers>>

\* lines 98-99: one iteration of the loop over response.headers
SvSetHeader ==
    /\ sv_pc = "loop"
    /\ sv_i < Len(sv_headers)
    /\ sv_store' = SetHeader(sv_store, sv_headers[sv_i + 1][1],
                             sv_headers[sv_i + 1][2])
    /\ sv_i' = sv_i + 1
    /\ UNCHANGED <<knownVars, routerVars, immVars, buildVars, sv_headers, sv_pc>>

\* line 100: return http_response
SvReturn ==
    /\ sv_pc = "loop"
    /\ sv_i = Len(sv_headers)
    /\ sv_pc' = "returned"
    /\ UNCHANGED <<knownVars, routerVars, immVars, buildVars, sv_headers, sv_store, sv_i>>

\* the header lists a file handle may return
HeaderLists ==
    UNION {[1..n -> HeaderNames \X HeaderValues] : n \in 0..MaxHeaders}

ServeInit ==
    /\ RouterIdle
    /\ KnownIdle
    /\ ImmIdle
    /\ BuildIdle
    /\ ServeIdle

ServeNext ==
    \/ \E h \in HeaderLists : SvGetResponse(h)
    \/ SvConstruct
    \/ SvDelete
    \/ SvSetHeader
    \/ SvReturn

SpecServe == ServeInit /\ [][ServeNext]_vars

\* the positions of the header list whose name is not supplied again later
LastSupplied ==
    {i \in 1..Len(sv_headers) :
        \A j \in (i + 1)..Len(sv_headers) :
            Lower(sv_headers[j][1]) # Lower(sv_headers[i][1])}

\* the names of the header list are distinct, compared case-insensitively
DistinctNames == LastSupplied = 1..Len(sv_headers)

\* C8. Response header fidelity: the returned response carries a header
\* name (case-insensitively) exactly if the file handle supplied it, each
\* with the name and value supplied (the last ones, if a name was supplied
\* more than once); so for a list of distinct names the response holds
\* exactly the list's headers, each once, and no default header.
C8_HeaderFidelity ==
    sv_pc = "returned" =>
        /\ DOMAIN sv_store = {Lower(sv_headers[i][1]) : i \in 1..Len(sv_headers)}
        /\ \A i \in LastSupplied :
               sv_store[Lower(sv_headers[i][1])] = sv_headers[i]
        /\ DistinctNames =>
               /\ Cardinality(DOMAIN sv_store) = Len(sv_headers)
               /\ \A i \in 1..Len(sv_headers) :
                      sv_store[Lower(sv_headers[i][1])] = sv_headers[i]

\* C8 witness: a response built from a header list without a content-type
\* (a 304, say) has been returned, and carries no content-type.
C8_Witness ==
    /\ sv_pc = "returned"
    /\ sv_headers = <<<<"ETag", "v1">>, <<"Content-Length", "v2">>>>
    /\ DOMAIN sv_store = {"etag", "content-length"}

-----------------------------------------------------------------------------
(* __init__ and add_files_from_finders *)

\* number of entries one finder lists
MaxEntries == 1

RECURSIVE LStrip(_, _)
\* str.lstrip(c)
LStrip(s, c) == IF s # <<>> /\ Head(s) = c THEN LStrip(Tail(s), c) ELSE s

RECURSIVE RStrip(_, _)
\* str.rstrip(c)
RStrip(s, c) ==
    IF s # <<>> /\ s[Len(s)] = c THEN RStrip(SubSeq(s, 1, Len(s) - 1), c) ELSE s

\* str.strip(c)
Strip(s, c) == RStrip(LStrip(s, c), c)

\* path.replace("\\", "/")
ReplaceBackslash(s) == [i \in 1..Len(s) |-> IF s[i] = "\\" THEN "/" ELSE s[i]]

\* mutation of FinderUrl: the static prefix is left out of the URL
FinderUrlNoStaticPrefix(path, storage) ==
    LET prefix == Strip(storage.prefix, "/")
    IN prefix \o (IF prefix # <<>> THEN <<"/">> ELSE <<>>)
           \o ReplaceBackslash(path)

\* lines 130-138: the URL of a finder's entry
FinderUrl(path, storage) ==
    LET prefix == Strip(storage.prefix, "/")
    IN static_prefix \o prefix \o (IF prefix # <<>> THEN <<"/">> ELSE <<>>)
           \o ReplaceBackslash(path)

\* storage.path(path)
StoragePath(storage, path) == storage.location \o path

\* mutation of SetDefault: a plain assignment, the last matching file is used
SetDefaultAssign(f, url, path) ==
    [u \in DOMAIN f \cup {url} |-> IF u = url THEN path ELSE f[u]]

\* files.setdefault(url, path)
SetDefault(f, url, path) ==
    IF url \in DOMAIN f THEN f
    ELSE [u \in DOMAIN f \cup {url} |-> IF u = url THEN path ELSE f[u]]

\* WhiteNoise.add_file_to_dictionary of the base class: the first registration
\* of a URL is kept, a later one for the same URL is a no-op
AddFileToDictionary(reg, url, path) ==
    IF url \in DOMAIN reg THEN reg
    ELSE [u \in DOMAIN reg \cup {url} |-> IF u = url THEN [path |-> path] ELSE reg[u]]

RECURSIVE AddFiles(_, _, _, _)
\* WhiteNoise.add_files of the base class (autorefresh off): every file of the
\* directory is registered under prefix + its relative path
AddFiles(reg, listing, prefix, dir) ==
    IF listing = <<>> THEN reg
    ELSE AddFiles(AddFileToDictionary(reg, prefix \o Head(listing),
                                      dir \o Head(listing)),
                  Tail(listing), prefix, dir)

RECURSIVE AddBatch(_, _)
\* lines 142-143: add_file_to_dictionary for every item of the local dict
AddBatch(reg, f) ==
    IF DOMAIN f = {} THEN reg
    ELSE LET u == CHOOSE x \in DOMAIN f : TRUE
         IN AddBatch(AddFileToDictionary(reg, u, f[u]),
                     [x \in DOMAIN f \ {u} |-> f[x]])

\* the class attribute add_static_root_files
add_static_root_files(is_lazy) == ~is_lazy

\* the directories of self.static_root and self.root
StaticRootDir == <<"R", "/">>
RootDir == <<"W", "/">>

\* mutation of InitOrder: the finders are registered before the static root
InitOrderFindersFirst == <<"finders", "static_root", "root">>

\* lines 59-67: the order in which __init__ registers its sources
InitOrder == <<"static_root", "root", "finders">>

\* the step of __init__ after `phase`
After(phase) ==
    LET i == CHOOSE k \in 1..Len(InitOrder) : InitOrder[k] = phase
    IN IF i = Len(InitOrder) THEN "built" ELSE InitOrder[i + 1]

\* lines 59-63: the static root
BStaticRoot ==
    /\ b_pc = "static_root"
    /\ b_files' = IF add_static_root_files(b_lazy) /\ ~b_autorefresh
                     THEN AddFiles(b_files, b_static_root, static_prefix,
                                   StaticRootDir)
                     ELSE b_files
    /\ b_pc' = After("static_root")
    /\ UNCHANGED <<knownVars, routerVars, immVars, serveVars, b_lazy, b_autorefresh,
                   b_use_finders, b_static_root, b_root, b_finders, b_fi, b_ei,
                   b_ffiles, b_stat_cache, b_stat_calls>>

\* lines 64-65: self.root
BRoot ==
    /\ b_pc = "root"
    /\ b_files' = IF ~b_autorefresh
                     THEN AddFiles(b_files, b_root, <<"/">>, RootDir)
                     ELSE b_files
    /\ b_pc' = After("root")
    /\ UNCHANGED <<knownVars, routerVars, immVars, serveVars, b_lazy, b_autorefresh,
                   b_use_finders, b_static_root, b_root, b_finders, b_fi, b_ei,
                   b_ffiles, b_stat_cache, b_stat_calls>>

\* lines 66-67 and 127: add_files_from_finders is entered, or skipped
BFinders ==
    /\ b_pc = "finders"
    /\ IF b_use_finders /\ ~b_autorefresh
          THEN /\ b_ffiles' = <<>>
               /\ b_fi' = 1
               /\ b_ei' = 0
               /\ b_pc' = "enumerate"
          ELSE /\ b_pc' = After("finders")
               /\ UNCHANGED <<b_ffiles, b_fi, b_ei>>
    /\ UNCHANGED <<knownVars, routerVars, immVars, serveVars, b_lazy, b_autorefresh,
                   b_use_finders, b_static_root, b_root, b_finders,
                   b_stat_cache, b_stat_calls, b_files>>

\* lines 129-140: one entry of the current finder
BFinderEntry ==
    /\ b_pc = "enumerate"
    /\ b_fi <= Len(b_finders)
    /\ b_ei < Len(b_finders[b_fi])
    /\ LET e == b_finders[b_fi][b_ei + 1]
       IN b_ffiles' = SetDefault(b_ffiles, FinderUrl(e.path, e.storage),
                                 StoragePath(e.storage, e.path))
    /\ b_ei' = b_ei + 1
    /\ UNCHANGED <<knownVars, routerVars, immVars, serveVars, b_lazy, b_autorefresh,
                   b_use_finders, b_static_root, b_root, b_finders, b_fi,
                   b_stat_cache, b_stat_calls, b_files, b_pc>>

\* line 128: the next finder
BNextFinder ==
    /\ b_pc = "enumerate"
    /\ b_fi <= Len(b_finders)
    /\ b_ei = Len(b_finders[b_fi])
    /\ b_fi' = b_fi + 1
    /\ b_ei' = 0
    /\ UNCHANGED <<knownVars, routerVars, immVars, serveVars, b_lazy, b_autorefresh,
                   b_use_finders, b_static_root, b_root, b_finders, b_ffiles,
                   b_stat_cache, b_stat_calls, b_files, b_pc>>

\* line 141: stat_cache = {path: os.stat(path) for path in files.values()}
BStat ==
    /\ b_pc = "enumerate"
    /\ b_fi > Len(b_finders)
    /\ b_stat_cache' = {b_ffiles[u] : u \in DOMAIN b_ffiles}
    /\ b_stat_calls' = Cardinality(DOMAIN b_ffiles)
    /\ b_pc' = "register"
    /\ UNCHANGED <<knownVars, routerVars, immVars, serveVars, b_lazy, b_autorefresh,
                   b_use_finders, b_static_root, b_root, b_finders, b_fi, b_ei,
                   b_ffiles, b_files>>

\* lines 142-143: the batch is registered
BRegister ==
    /\ b_pc = "register"
    /\ b_files' = AddBatch(b_files, b_ffiles)
    /\ b_pc' = After("finders")
    /\ UNCHANGED <<knownVars, routerVars, immVars, serveVars, b_lazy, b_autorefresh,
                   b_use_finders, b_static_root, b_root, b_finders, b_fi, b_ei,
                   b_ffiles, b_stat_cache, b_stat_calls>>

\* the storages of the finders: two on one directory, one with a prefix, and
\* one on another directory
Storages ==
    {[prefix |-> <<>>, location |-> <<"F1", "/">>],
     [prefix |-> <<"/", "d", "/">>, location |-> <<"F1", "/">>],
     [prefix |-> <<>>, location |-> <<"F2", "/">>]}

\* the relative paths a finder lists
FinderRelPaths == {<<"a">>, <<"d", "\\", "a">>}

FinderEntries == [path : FinderRelPaths, storage : Storages]

\* what one finder's list(None) may yield
FinderListings == UNION {[1..n -> FinderEntries] : n \in 0..MaxEntries}

\* the files the static root may hold
StaticRootListings ==
    {<<>>, <<<<"a">>>>, <<<<"d", "/", "a">>>>, <<<<"a">>, <<"d", "/", "a">>>>}

\* the files self.root may hold
RootListings == {<<>>, <<<<"x">>>>, <<<<"s", "/", "a">>>>}

BuildInit ==
    /\ RouterIdle
    /\ KnownIdle
    /\ ImmIdle
    /\ ServeIdle
    /\ b_lazy \in BOOLEAN
    /\ b_autorefresh \in BOOLEAN
    /\ b_use_finders \in (IF b_autorefresh THEN {TRUE} ELSE BOOLEAN)
    /\ b_static_root \in StaticRootListings
    /\ b_root \in RootListings
    /\ b_finders \in FinderListings \X FinderListings
    /\ b_fi = 0
    /\ b_ei = 0
    /\ b_ffiles = <<>>
    /\ b_stat_cache = {}
    /\ b_stat_calls = 0
    /\ b_files = <<>>
    /\ b_pc = InitOrder[1]

BuildNext ==
    \/ BStaticRoot
    \/ BRoot
    \/ BFinders
    \/ BFinderEntry
    \/ BNextFinder
    \/ BStat
    \/ BRegister

SpecBuild == BuildInit /\ [][BuildNext]_vars

\* the finders' entries in the order add_files_from_finders meets them
Enumeration ==
    LET all == b_finders[1] \o b_finders[2]
    IN [i \in 1..Len(all) |->
           [url |-> FinderUrl(all[i].path, all[i].storage),
            path |-> StoragePath(all[i].storage, all[i].path)]]

\* the path of the first enumerated entry with URL u
FirstPath(u) ==
    LET at == {i \in 1..Len(Enumeration) : Enumeration[i].url = u}
        first == CHOOSE i \in at : \A j \in at : i <= j
    IN Enumeration[first].path

\* the URLs registered before the finders are enumerated
UrlsBeforeFinders ==
    (IF add_static_root_files(b_lazy)
        THEN {static_prefix \o b_static_root[i] : i \in 1..Len(b_static_root)}
        ELSE {})
    \cup {<<"/">> \o b_root[i] : i \in 1..Len(b_root)}

\* add_files_from_finders has run to the end of its enumeration
Enumerated == b_use_finders /\ ~b_autorefresh /\ b_pc \in {"register", "built"}

\* C4. Merge among backends: once the finders are enumerated, every URL they
\* produce is bound in the batch to the path of the first enumerated entry
\* with that URL, and after construction the registry binds it to that path
\* (unless the static root or self.root had registered the URL before).
C4_FindersFirstWins ==
    Enumerated =>
        \A i \in 1..Len(Enumeration) :
            LET u == Enumeration[i].url
            IN /\ u \in DOMAIN b_ffiles
               /\ b_ffiles[u] = FirstPath(u)
               /\ (b_pc = "built" /\ u \notin UrlsBeforeFinders)
                      => (u \in DOMAIN b_files /\ b_files[u].path = FirstPath(u))

\* C4 witness: two finders produced the same URL from different files, and
\* the registry holds the first finder's file.
C4_Witness ==
    /\ Enumerated /\ b_pc = "built"
    /\ Len(b_finders[1]) > 0 /\ Len(b_finders[2]) > 0
    /\ LET e1 == b_finders[1][1]
           e2 == b_finders[2][1]
           u == FinderUrl(e1.path, e1.storage)
       IN /\ FinderUrl(e2.path, e2.storage) = u
          /\ StoragePath(e1.storage, e1.path) # StoragePath(e2.storage, e2.path)
          /\ u \in DOMAIN b_files
          /\ b_files[u].path = StoragePath(e1.storage, e1.path)

\* C5. First-match-wins between the static root and a finder: after an eager
\* construction every file of the static root is registered under its URL
\* with the static root's path, whatever the finders produced.
C5_StaticRootFirst ==
    (b_pc = "built" /\ add_static_root_files(b_lazy) /\ ~b_autorefresh) =>
        \A i \in 1..Len(b_static_root) :
            LET u == static_prefix \o b_static_root[i]
            IN /\ u \in DOMAIN b_files
               /\ b_files[u].path = StaticRootDir \o b_static_root[i]

\* C5 witness: a finder produced the URL of a file of the static root, and
\* the registry holds the static root's file.
C5_Witness ==
    /\ b_pc = "built" /\ add_static_root_files(b_lazy) /\ Enumerated
    /\ \E i \in 1..Len(b_static_root) :
           LET u == static_prefix \o b_static_root[i]
           IN /\ u \in DOMAIN b_ffiles
              /\ b_files[u].path = StaticRootDir \o b_static_root[i]
              /\ b_files[u].path # b_ffiles[u]

\* C17. Metadata once per unique path: once the stat cache is built, os.stat
\* has been called as many times as the batch has distinct paths.
C17_StatOncePerPath ==
    Enumerated => b_stat_calls = Cardinality(b_stat_cache)

-----------------------------------------------------------------------------
(* The registry over the middleware's life: construction, or requests *)

LifeInit == Init \/ BuildInit

\* requests are served by a constructed middleware (no construction is
\* under way); a construction runs before any request
LifeNext ==
    \/ (b_pc = "idle" /\ Next)
    \/ BuildNext

SpecLife == LifeInit /\ [][LifeNext]_vars

\* the URLs under which the files of self.root are registered
RootUrls == {<<"/">> \o b_root[i] : i \in 1..Len(b_root)}

-----------------------------------------------------------------------------
(* known_static_urls as a cached_property: the attribute access finds the  *)
(* value in the instance's __dict__, or calls the function and stores its  *)
(* result there; no lock is taken                                          *)

\* number of times the environment may replace the manifest during a run
MaxManifestChanges == 1

\* a name the manifest maps to itself
NameB == <<"b">>

\* the manifests of the storage: dicts as sets of <<key, value>>
KManifests == SUBSET {<<NameA, NameH>>, <<NameB, NameB>>}

\* self.known_static_urls is evaluated: the value is in __dict__, or not yet
KAccess(w) ==
    /\ k_pc[w] \in {"idle", "returned"}
    /\ IF k_cache.tag # "unset"
          THEN /\ k_seen' = [k_seen EXCEPT ![w] = k_cache]
               /\ k_pc' = [k_pc EXCEPT ![w] = "returned"]
          ELSE /\ k_pc' = [k_pc EXCEPT ![w] = "compute"]
               /\ UNCHANGED k_seen
    /\ UNCHANGED <<routerVars, immVars, serveVars, buildVars, k_is_manifest,
                   k_hashed_files, k_keep_only, k_cache, k_local, k_reads,
                   k_changes, k_first>>

\* lines 198-204: the function is called and reads the manifest
KFunc(w) ==
    /\ k_pc[w] = "compute"
    /\ k_local' = [k_local EXCEPT ![w] =
                      known_static_urls(k_is_manifest, k_hashed_files,
                                        k_keep_only)]
    /\ k_reads' = k_reads + 1
    /\ k_pc' = [k_pc EXCEPT ![w] = "store"]
    /\ UNCHANGED <<routerVars, immVars, serveVars, buildVars, k_is_manifest,
                   k_hashed_files, k_keep_only, k_cache, k_seen, k_changes,
                   k_first>>

\* cached_property stores the result in __dict__ and returns it
KStore(w) ==
    /\ k_pc[w] = "store"
    /\ k_cache' = k_local[w]
    /\ k_seen' = [k_seen EXCEPT ![w] = k_local[w]]
    /\ k_first' = IF k_first.tag = "unset" THEN k_local[w] ELSE k_first
    /\ k_pc' = [k_pc EXCEPT ![w] = "returned"]
    /\ UNCHANGED <<routerVars, immVars, serveVars, buildVars, k_is_manifest,
                   k_hashed_files, k_keep_only, k_local, k_reads, k_changes>>

\* the environment replaces the manifest of the storage
KManifestChange(m) ==
    /\ k_is_manifest
    /\ k_changes < MaxManifestChanges
    /\ m # k_hashed_files
    /\ k_hashed_files' = m
    /\ k_changes' = k_changes + 1
    /\ UNCHANGED <<routerVars, immVars, serveVars, buildVars, k_is_manifest,
                   k_keep_only, k_cache, k_pc, k_local, k_seen, k_reads,
                   k_first>>

KnownInit ==
    /\ RouterIdle
    /\ ImmIdle
    /\ ServeIdle
    /\ BuildIdle
    /\ k_is_manifest \in BOOLEAN
    /\ k_hashed_files \in (IF k_is_manifest THEN KManifests ELSE {{}})
    /\ k_keep_only \in BOOLEAN
    /\ k_cache = Unset
    /\ k_pc = [w \in Workers |-> "idle"]
    /\ k_local = [w \in Workers |-> Unset]
    /\ k_seen = [w \in Workers |-> Unset]
    /\ k_reads = 0
    /\ k_changes = 0
    /\ k_first = Unset

KnownNext ==
    \/ \E w \in Workers : KAccess(w)
    \/ \E w \in Workers : KFunc(w)
    \/ \E w \in Workers : KStore(w)
    \/ \E m \in KManifests : KManifestChange(m)

SpecKnown == KnownInit /\ [][KnownNext]_vars

\* URLs a request may ask the knowledge set about
KUrls ==
    {r \o n : r \in {static_prefix, <<"/">>, <<>>},
              n \in {NameA, NameH, NameB, <<"c">>}}

\* the manifest has the entry key -> value
MapsTo(key, value) == <<key, value>> \in k_hashed_files

\* name is a value of the manifest
IsManifestValue(name) == \E e \in k_hashed_files : e[2] = name

\* name is a key of the manifest
IsManifestKey(name) == \E e \in k_hashed_files : e[1] = name

\* C11. Knowledge set construction: the value an access returns for an
\* unchanged manifest is None without a manifest; with one it is a set whose
\* members are exactly the static prefix followed by a manifest value or,
\* unless only hashed files are kept, by a manifest key; when only hashed
\* files are kept, a key that is not a value does not pass the gate.
C11_KnowledgeSet ==
    \A w \in Workers :
        (k_pc[w] = "returned" /\ k_changes = 0) =>
            /\ ~k_is_manifest => k_seen[w] = [tag |-> "none", urls |-> {}]
            /\ k_is_manifest =>
                /\ k_seen[w].tag = "set"
                /\ k_seen[w].urls \subseteq KUrls
                /\ \A u \in KUrls :
                       u \in k_seen[w].urls <=>
                           /\ StartsWith(u, static_prefix)
                           /\ LET n == SubSeq(u, Len(static_prefix) + 1, Len(u))
                              IN \/ IsManifestValue(n)
                                 \/ (~k_keep_only /\ IsManifestKey(n))
                /\ k_keep_only =>
                       \A e \in k_hashed_files :
                           ~IsManifestValue(e[1]) =>
                               LazyCanLazyLoadUrl(static_prefix \o e[1],
                                                  k_seen[w]) = "False"

\* C11 witness: with only hashed files kept, an access returned the values
\* of a manifest one of whose keys is a value and the other is not.
C11_Witness ==
    \E w \in Workers :
        /\ k_pc[w] = "returned" /\ k_changes = 0
        /\ k_is_manifest /\ k_keep_only
        /\ MapsTo(NameA, NameH) /\ MapsTo(NameB, NameB)
        /\ k_seen[w].urls = {static_prefix \o NameH, static_prefix \o NameB}

\* C16. The knowledge set is write-once: every access returns the value
\* first stored, and the slot holds that value from then on.
C16_WriteOnce ==
    /\ k_cache = k_first
    /\ \A w \in Workers : k_pc[w] = "returned" => k_seen[w] = k_first

====
